---- MODULE Spec2Model ----
(***************************************************************************)
(* FactoryCalc: the Item / Machine / Recipe value types and the Database   *)
(* that indexes recipes by output item name and by machine name.           *)
(*                                                                         *)
(* Python values are modelled as records carrying their class in the field *)
(* "type", so that isinstance() and == between values of different classes *)
(* are computed as Python computes them.  A dict is a function whose       *)
(* DOMAIN is its key set (string-keyed registries and indexes) or, where   *)
(* insertion order matters (Recipe.output, Recipe.ingredients), a sequence *)
(* of key/value entries with distinct keys.                                *)
(***************************************************************************)
EXTENDS Integers, Sequences, FiniteSets, TLC

(***************************************************************************)
(* Bounds of the model                                                     *)
(***************************************************************************)
\* longest recipe list handed to a Database
MaxRecipes == 2
\* largest quantity tried in an output / ingredients mapping
MaxQty == 2
\* largest cycle time (seconds) tried for a machine or a recipe
MaxTime == 2
\* most entries of an output mapping handed to Recipe(...)
MaxOutputs == 2
\* largest width and height tried for a Building or a Machine
MaxSize == 2
\* largest slot count tried for a Machine
MaxSlots == 1
\* largest stock-bill quantity tried for an Item
MaxStock == 2
\* most entries added to one collection of a Database that was built empty
MaxEntries == 1

(***************************************************************************)
(* Python values                                                           *)
(***************************************************************************)
PyNone == [type |-> "NoneType"]
PyStr(s) == [type |-> "str", val |-> s]
PyInt(n) == [type |-> "int", val |-> n]
PyFloat(n) == [type |-> "float", val |-> n]
\* True and False: val is 1 and 0, their values as ints
PyBool(n) == [type |-> "bool", val |-> n]
\* a list with the elements elems
PyList(elems) == [type |-> "list", elems |-> elems]
\* a dict in insertion order: entries is a sequence of [key, val] with distinct keys
PyDict(entries) == [type |-> "dict", entries |-> entries]
\* a dict with str keys whose order is not observed: map is a function on its key set
StrDict(map) == [type |-> "dict", map |-> map]

\* isinstance(v, int): bool is a subclass of int
IsInt(v) == v.type \in {"int", "bool"}

\* an exception of class cls; about is the item or field its message names
Raise(cls, about) == [class |-> cls, about |-> about]
NoError == [class |-> "None", about |-> ""]

(***************************************************************************)
(* items.py: Item, a frozen dataclass                                      *)
(***************************************************************************)
Item(name, icon_path, is_fluid, stock_bill_valley, stock_bill_wuling) ==
    [type |-> "Item", name |-> name, icon_path |-> icon_path, is_fluid |-> is_fluid,
     stock_bill_valley |-> stock_bill_valley, stock_bill_wuling |-> stock_bill_wuling]

\* the fields a dataclass compares and hashes: all of them, in declaration
\* order (eq=True is the default, no field has compare=False)
Item_fields(i) ==
    <<i.name, i.icon_path, i.is_fluid, i.stock_bill_valley, i.stock_bill_wuling>>

\* Item.__eq__ as @dataclass generates it: same class and equal field tuples
Item_eq(a, b) == a.type = b.type /\ Item_fields(a) = Item_fields(b)

\* Item.__hash__ as @dataclass(frozen=True) generates it: the hash of the field
\* tuple, which stands for its hash here (equal tuples hash alike; that two
\* different tuples collide is not excluded by Python but is not relied on)
Item_hash(i) == Item_fields(i)

\* the accessor with the two regions exchanged: Wuling is preferred
stock_bill_per_item_wuling_first(i) ==
    IF i.stock_bill_wuling # 0 THEN i.stock_bill_wuling ELSE i.stock_bill_valley

\* Item.stock_bill_per_item: "valley or wuling" yields valley when it is
\* truthy (an int other than 0) and wuling otherwise
stock_bill_per_item(i) ==
    IF i.stock_bill_valley # 0 THEN i.stock_bill_valley ELSE i.stock_bill_wuling

\* the items of the model's catalogue; IngotAlt re-declares "Ingot" with another icon
Ore == Item("Ore", "Ore.png", FALSE, 0, 0)
Ingot == Item("Ingot", "Ingot.png", FALSE, 0, 0)
IngotAlt == Item("Ingot", "Ingot_Alt.png", FALSE, 0, 0)
Slag == Item("Slag", "Slag.png", FALSE, 0, 0)

(***************************************************************************)
(* machines.py: Building and Machine                                       *)
(***************************************************************************)
\* Building.__post_init__ with "< 0" for "<= 0": a zero width or height passes
BuildingPostInit_zero_ok(m) ==
    IF m.size[1] < 0 \/ m.size[2] < 0
    THEN Raise("ValueError", "size")
    ELSE NoError

\* Building.__post_init__
BuildingPostInit(m) ==
    IF m.size[1] <= 0 \/ m.size[2] <= 0
    THEN Raise("ValueError", "size")
    ELSE NoError

\* the slot attribute list without the liquid slots
SlotAttrs_physical == <<"physical_input_slots", "physical_output_slots">>

SlotAttrs == <<"physical_input_slots", "physical_output_slots",
               "liquid_input_slots", "liquid_output_slots">>

\* the loop of Machine.__post_init__ over the slot attributes, from index i on
RECURSIVE CheckSlots(_, _)
CheckSlots(m, i) ==
    IF i > Len(SlotAttrs) THEN NoError
    ELSE IF m[SlotAttrs[i]] < 0 THEN Raise("ValueError", SlotAttrs[i])
    ELSE CheckSlots(m, i + 1)

\* Machine.__post_init__
MachinePostInit(m) ==
    LET base == BuildingPostInit(m) IN
    IF base.class # "None" THEN base
    ELSE IF m.time_seconds.val < 0 THEN Raise("ValueError", "time_seconds")
    ELSE CheckSlots(m, 1)

\* Machine(name, size, description, time_seconds=..., physical_input_slots=..., ...):
\* the dataclass __init__ stores the fields and calls __post_init__
NewMachine(name, size, time_seconds, pis, pos, lis, los) ==
    LET m == [type |-> "Machine", name |-> name, size |-> size,
              time_seconds |-> time_seconds,
              physical_input_slots |-> pis, physical_output_slots |-> pos,
              liquid_input_slots |-> lis, liquid_output_slots |-> los]
    IN [error |-> MachinePostInit(m), obj |-> m]

\* Building(name, size, description): the dataclass __init__ stores the fields
\* and calls __post_init__
NewBuilding(name, size) ==
    LET b == [type |-> "Building", name |-> name, size |-> size]
    IN [error |-> BuildingPostInit(b), obj |-> b]

\* footprint as the width squared
footprint_square(m) == m.size[1] * m.size[1]

\* Building.footprint
footprint(m) == m.size[1] * m.size[2]

Furnace == NewMachine("Furnace", <<3, 3>>, PyFloat(2), 1, 1, 0, 0).obj
Press == NewMachine("Press", <<2, 1>>, PyFloat(0), 2, 2, 0, 0).obj

(***************************************************************************)
(* recipes.py: Recipe                                                      *)
(***************************************************************************)
\* _type_checks without its last test: an empty output passes
type_checks_no_empty(r) ==
    IF r.machine.type # "Machine"
    THEN Raise("TypeError", "machine")
    ELSE IF r.output.type # "dict" \/ r.ingredients.type # "dict"
    THEN Raise("TypeError", "output/ingredients")
    ELSE NoError

\* Recipe._type_checks
type_checks(r) ==
    IF r.machine.type # "Machine"
    THEN Raise("TypeError", "machine")
    ELSE IF r.output.type # "dict" \/ r.ingredients.type # "dict"
    THEN Raise("TypeError", "output/ingredients")
    ELSE IF r.output.entries = <<>>
    THEN Raise("ValueError", "output")
    ELSE NoError

\* the loop of _validate_inputs with "v < 0" for "v <= 0": a zero quantity passes
RECURSIVE ValidateEntries_zero_ok(_)
ValidateEntries_zero_ok(entries) ==
    IF entries = <<>> THEN NoError
    ELSE LET k == Head(entries).key
             v == Head(entries).val
         IN IF k.type # "Item" THEN Raise("TypeError", "key")
            ELSE IF ~IsInt(v) \/ v.val < 0 THEN Raise("ValueError", k.name)
            ELSE ValidateEntries_zero_ok(Tail(entries))

\* one loop of Recipe._validate_inputs: the first entry, in insertion order,
\* whose key is no Item (TypeError) or whose quantity is no positive int
\* (ValueError naming the item) raises
RECURSIVE ValidateEntries(_)
ValidateEntries(entries) ==
    IF entries = <<>> THEN NoError
    ELSE LET k == Head(entries).key
             v == Head(entries).val
         IN IF k.type # "Item" THEN Raise("TypeError", "key")
            ELSE IF ~IsInt(v) \/ v.val <= 0 THEN Raise("ValueError", k.name)
            ELSE ValidateEntries(Tail(entries))

\* Recipe._validate_inputs: the outputs first, then the ingredients
validate_inputs(r) ==
    LET out == ValidateEntries(r.output.entries) IN
    IF out.class # "None" THEN out ELSE ValidateEntries(r.ingredients.entries)

\* _resolve_timing that takes the machine's time whatever the recipe was given
resolve_timing_from_machine(r) ==
    LET inherited == r.machine.time_seconds IN
    IF inherited = PyNone
    THEN [error |-> Raise("ValueError", "time_seconds"),
          obj |-> [r EXCEPT !.time_seconds = inherited]]
    ELSE [error |-> NoError, obj |-> [r EXCEPT !.time_seconds = inherited]]

\* Recipe._resolve_timing: [error, obj], obj being r with time_seconds resolved
resolve_timing(r) ==
    IF r.time_seconds = PyNone
    THEN LET inherited == r.machine.time_seconds IN
         IF inherited = PyNone
         THEN [error |-> Raise("ValueError", "time_seconds"),
               obj |-> [r EXCEPT !.time_seconds = inherited]]
         ELSE [error |-> NoError, obj |-> [r EXCEPT !.time_seconds = inherited]]
    ELSE [error |-> NoError, obj |-> r]

\* Recipe.__post_init__: the three steps in order, the first error wins
RecipePostInit(r) ==
    LET e1 == type_checks(r) IN
    IF e1.class # "None" THEN [error |-> e1, obj |-> r]
    ELSE LET e2 == validate_inputs(r) IN
         IF e2.class # "None" THEN [error |-> e2, obj |-> r]
         ELSE resolve_timing(r)

\* Recipe(machine=..., output=..., ingredients=..., time_seconds=...): the
\* dataclass __init__ stores the arguments and calls __post_init__.  The object
\* exists for the caller only when error.class = "None".
NewRecipe(machine, output, ingredients, time_seconds) ==
    RecipePostInit([type |-> "Recipe", machine |-> machine, output |-> output,
                    ingredients |-> ingredients, time_seconds |-> time_seconds,
                    ratio_raw |-> ""])

\* name taken from the last output item
Recipe_name_last(r) == r.output.entries[Len(r.output.entries)].key.name

\* Recipe.name: next(iter(self.output)) is the first key in insertion order
Recipe_name(r) == r.output.entries[1].key.name

\* Recipe.icon
Recipe_icon(r) == r.output.entries[1].key.icon_path

\* Recipe.total_output_count
RECURSIVE SumValues(_)
SumValues(entries) ==
    IF entries = <<>> THEN 0 ELSE Head(entries).val.val + SumValues(Tail(entries))

\* total_output_count as len(self.output): the number of outputs
total_output_count_len(r) == Len(r.output.entries)

total_output_count(r) == SumValues(r.output.entries)

\* a float result: +infinity, or the exact quotient num / den in lowest terms
RECURSIVE GCD(_, _)
GCD(a, b) == IF b = 0 THEN a ELSE GCD(b, a % b)

Inf == [inf |-> TRUE, num |-> 0, den |-> 1]
Quot(n, d) == LET g == GCD(n, d) IN [inf |-> FALSE, num |-> n \div g, den |-> d \div g]

\* cycles_per_minute whose "<= 0" branch returns 0.0 for a zero time as well
cycles_per_minute_zero(r) ==
    IF r.time_seconds.val <= 0
    THEN Quot(0, 1)
    ELSE Quot(60, r.time_seconds.val)

\* Recipe.cycles_per_minute
cycles_per_minute(r) ==
    IF r.time_seconds.val <= 0
    THEN (IF r.time_seconds.val = 0 THEN Inf ELSE Quot(0, 1))
    ELSE Quot(60, r.time_seconds.val)

\* Recipe.items_per_minute
items_per_minute(r) ==
    LET c == cycles_per_minute(r) IN
    IF c.inf THEN Inf ELSE Quot(c.num * total_output_count(r), c.den)

(***************************************************************************)
(* appdb.py: Database                                                      *)
(***************************************************************************)
VARIABLES
    items,               \* Database.items: str -> Item
    machines,            \* Database.machines: str -> Machine
    recipes,             \* Database.recipes: the list, shared with the caller
    recipes_by_output,   \* Database._recipes_by_output: str -> list of Recipe
    recipes_by_machine,  \* Database._recipes_by_machine: str -> list of Recipe
    result,              \* the last operation on the Database and what it returned
    machine,             \* a Machine object, shared by the recipes built on it
    call,                \* the arguments of the last constructor call, PyNone if none
    recipe,              \* the Recipe object that call returned, PyNone if none
    error,               \* the exception that call raised
    pc,                  \* where a running _rebuild_indexes stands: line and recipe
    other                \* a second Database, and which objects the two hold

vars == <<items, machines, recipes, recipes_by_output, recipes_by_machine, result,
          machine, call, recipe, error, pc, other>>
dbVars == <<items, machines, recipes, recipes_by_output, recipes_by_machine, result>>
recipeVars == <<machine, call, recipe, error>>

\* no _rebuild_indexes is running
Idle == [line |-> 0, cursor |-> 0]
\* _rebuild_indexes is about to run the given line, for recipe number cursor
At(line, cursor) == [line |-> line, cursor |-> cursor]

\* d[k] = v
Put(d, k, v) == [q \in DOMAIN d \cup {k} |-> IF q = k THEN v ELSE d[q]]

\* "k in d" for a dict d with str keys and any object k: an object that is no
\* str has another hash and compares unequal to every str key
PyContains(d, k) == k.type = "str" /\ k.val \in DOMAIN d

\* d.get(key, default) for a str key
dict_get(d, key, default) == IF key \in DOMAIN d THEN d[key] ELSE default

\* the dict after d.setdefault(key, default): a miss stores the default
dict_after_setdefault(d, key, default) ==
    IF key \in DOMAIN d THEN d ELSE Put(d, key, default)

\* the dict after d.get(key, default): get stores nothing, on a hit or a miss
dict_after_get(d, key, default) == d

\* a clear() that leaves the dict as it is
clear_nothing(d) == d

\* dict.clear()
clear(d) == << >>

\* the inner loop filing the recipe under its machine's name, as lines 26-29 do
RECURSIVE IndexOutputs_by_machine_name(_, _, _)
IndexOutputs_by_machine_name(by_output, r, entries) ==
    IF entries = <<>> THEN by_output
    ELSE LET output_item == Head(entries).key
             fresh == IF ~PyContains(by_output, output_item)
                      THEN Put(by_output, r.machine.name, <<>>)
                      ELSE by_output
             added == Put(fresh, r.machine.name,
                          Append(fresh[r.machine.name], r))
         IN IndexOutputs_by_machine_name(added, r, Tail(entries))

\* the inner loop of _rebuild_indexes over recipe.output.keys(), lines 21-24
RECURSIVE IndexOutputs(_, _, _)
IndexOutputs(by_output, r, entries) ==
    IF entries = <<>> THEN by_output
    ELSE LET output_item == Head(entries).key
             fresh == IF ~PyContains(by_output, output_item)
                      THEN Put(by_output, output_item.name, <<>>)
                      ELSE by_output
             added == Put(fresh, output_item.name,
                          Append(fresh[output_item.name], r))
         IN IndexOutputs(added, r, Tail(entries))

\* lines 26-29 with the membership test of line 22: the machine object, not
\* its name, is looked up, so the bucket starts afresh with every recipe
IndexMachine_by_object(by_machine, r) ==
    LET m_name == r.machine.name
        fresh == IF ~PyContains(by_machine, r.machine)
                 THEN Put(by_machine, m_name, <<>>)
                 ELSE by_machine
    IN Put(fresh, m_name, Append(fresh[m_name], r))

\* lines 26-29 with insert(0, recipe) for append(recipe)
IndexMachine_prepend(by_machine, r) ==
    LET m_name == r.machine.name
        fresh == IF ~PyContains(by_machine, PyStr(m_name))
                 THEN Put(by_machine, m_name, <<>>)
                 ELSE by_machine
    IN Put(fresh, m_name, <<r>> \o fresh[m_name])

\* lines 26-29: the machine bucket of one recipe
IndexMachine(by_machine, r) ==
    LET m_name == r.machine.name
        fresh == IF ~PyContains(by_machine, PyStr(m_name))
                 THEN Put(by_machine, m_name, <<>>)
                 ELSE by_machine
    IN Put(fresh, m_name, Append(fresh[m_name], r))

\* the loop of _rebuild_indexes over self.recipes, lines 20-29
RECURSIVE IndexRecipes(_, _, _)
IndexRecipes(by_output, by_machine, rs) ==
    IF rs = <<>> THEN [by_output |-> by_output, by_machine |-> by_machine]
    ELSE IndexRecipes(IndexOutputs(by_output, Head(rs), Head(rs).output.entries),
                      IndexMachine(by_machine, Head(rs)),
                      Tail(rs))

\* Database._rebuild_indexes on the indexes as they are and the list rs
rebuild_indexes(by_output, by_machine, rs) ==
    IndexRecipes(clear(by_output), clear(by_machine), rs)

\* truth value of d.get(...): None is false, an Item or a Machine is true
\* (neither class defines __bool__ or __len__)
Truthy(v) == v # PyNone

\* Database.get_item
get_item(key) == dict_get(items, key, PyNone)

\* Database.get_machine
get_machine(key) == dict_get(machines, key, PyNone)

\* get_recipes_for_item whose default on a miss is the whole recipe list
get_recipes_for_item_default_all(lookup) ==
    LET item_obj == dict_get(items, lookup, PyNone) IN
    IF Truthy(item_obj)
    THEN PyList(dict_get(recipes_by_output, item_obj.name, recipes))
    ELSE PyList(dict_get(recipes_by_output, lookup, recipes))

\* Database.get_recipes_for_item
get_recipes_for_item(lookup) ==
    LET item_obj == dict_get(items, lookup, PyNone) IN
    IF Truthy(item_obj)
    THEN PyList(dict_get(recipes_by_output, item_obj.name, <<>>))
    ELSE PyList(dict_get(recipes_by_output, lookup, <<>>))

\* get_recipes_for_machine that probes the index with the key it was given
get_recipes_for_machine_by_key(lookup) ==
    PyList(dict_get(recipes_by_machine, lookup, <<>>))

\* Database.get_recipes_for_machine
get_recipes_for_machine(lookup) ==
    LET mach_obj == dict_get(machines, lookup, PyNone) IN
    IF Truthy(mach_obj)
    THEN PyList(dict_get(recipes_by_machine, mach_obj.name, <<>>))
    ELSE PyList(dict_get(recipes_by_machine, lookup, <<>>))

(***************************************************************************)
(* The catalogue the Database is built from                                *)
(***************************************************************************)
Entry(k, v) == [key |-> k, val |-> v]

\* Furnace, 2.0 s: Ore -> Ingot, time inherited (30 items per minute)
ingot_recipe_1 ==
    NewRecipe(Furnace, PyDict(<<Entry(Ingot, PyInt(1))>>),
              PyDict(<<Entry(Ore, PyInt(1))>>), PyNone).obj
\* Furnace again, the same item again, under both of its declarations
ingot_recipe_2 ==
    NewRecipe(Furnace, PyDict(<<Entry(Ingot, PyInt(1)), Entry(IngotAlt, PyInt(1))>>),
              PyDict(<<Entry(Slag, PyInt(2))>>), PyNone).obj
\* Press: two outputs, the second one Ingot once more
slag_recipe ==
    NewRecipe(Press, PyDict(<<Entry(Slag, PyInt(1)), Entry(Ingot, PyInt(1))>>),
              PyDict(<<Entry(Ore, PyInt(2))>>), PyFloat(1)).obj

RecipePool == {ingot_recipe_1, ingot_recipe_2, slag_recipe}

\* every list of at most n recipes of the pool (a recipe may occur twice)
RECURSIVE RecipeLists(_)
RecipeLists(n) ==
    IF n = 0 THEN {<<>>}
    ELSE LET shorter == RecipeLists(n - 1) IN
         shorter \cup {Append(l, r) : l \in {x \in shorter : Len(x) = n - 1},
                                      r \in RecipePool}

\* registries as ITEM_REGISTRY / MACHINE_REGISTRY build them (name -> object),
\* with one more key each that is not the name of the object it holds
ItemRegistry ==
    [k \in {"Ore", "Ingot", "Slag", "ingot_bar"} |->
        IF k = "Ore" THEN Ore ELSE IF k = "Slag" THEN Slag ELSE Ingot]
MachineRegistry ==
    [k \in {"Furnace", "Press", "smelter"} |-> IF k = "Press" THEN Press ELSE Furnace]

\* the keys the queries are asked for
LookupKeys == {"Ingot", "Slag", "ingot_bar", "Furnace", "smelter", "nonexistent"}

(***************************************************************************)
(* Database: construction and the operations on it                         *)
(***************************************************************************)
Returned(op, key, value) == [op |-> op, key |-> key, value |-> value]

\* Database.__init__(items, machines, recipes): None stands for a fresh empty
\* collection; a list that is passed is kept as it is, not copied (line 9)
Database(items_arg, machines_arg, recipes_arg) ==
    LET rs == IF recipes_arg # PyNone THEN recipes_arg.elems ELSE <<>>
        idx == rebuild_indexes(<<>>, <<>>, rs)
    IN [items |-> IF items_arg # PyNone THEN items_arg.map ELSE <<>>,
        machines |-> IF machines_arg # PyNone THEN machines_arg.map ELSE <<>>,
        recipes |-> rs,
        recipes_by_output |-> idx.by_output,
        recipes_by_machine |-> idx.by_machine]

\* the registries a Database is given: none, or both
RegistryArgs == {<<PyNone, PyNone>>,
                 <<StrDict(ItemRegistry), StrDict(MachineRegistry)>>}
\* the recipe lists a Database is given
RecipeListArgs == {PyNone} \cup {PyList(l) : l \in RecipeLists(MaxRecipes)}

InitDb ==
    /\ \E registries \in RegistryArgs, recipes_arg \in RecipeListArgs :
        LET db == Database(registries[1], registries[2], recipes_arg) IN
        /\ items = db.items
        /\ machines = db.machines
        /\ recipes = db.recipes
        /\ recipes_by_output = db.recipes_by_output
        /\ recipes_by_machine = db.recipes_by_machine
    /\ result = Returned("__init__", "", PyNone)
    /\ machine = Furnace
    /\ call = PyNone
    /\ recipe = PyNone
    /\ error = NoError
    /\ pc = Idle
    /\ other = PyNone

\* db.recipes.append(r), or recipes.append(r) on the list the caller passed:
\* the same list object.  Nothing in Database observes the call.
ListAppend(r) ==
    /\ Len(recipes) < MaxRecipes
    /\ recipes' = Append(recipes, r)
    /\ result' = Returned("list.append", "", PyNone)
    /\ UNCHANGED <<items, machines, recipes_by_output, recipes_by_machine, recipeVars, pc, other>>

\* del db.recipes[i]
ListRemove(i) ==
    /\ i \in 1..Len(recipes)
    /\ recipes' = SubSeq(recipes, 1, i - 1) \o SubSeq(recipes, i + 1, Len(recipes))
    /\ result' = Returned("list.__delitem__", "", PyNone)
    /\ UNCHANGED <<items, machines, recipes_by_output, recipes_by_machine, recipeVars, pc, other>>

\* db.recipes[i] = r
ListReplace(i, r) ==
    /\ i \in 1..Len(recipes)
    /\ recipes[i] # r
    /\ recipes' = [recipes EXCEPT ![i] = r]
    /\ result' = Returned("list.__setitem__", "", PyNone)
    /\ UNCHANGED <<items, machines, recipes_by_output, recipes_by_machine, recipeVars, pc, other>>

\* db._rebuild_indexes()
Rebuild ==
    /\ LET idx == rebuild_indexes(recipes_by_output, recipes_by_machine, recipes) IN
        /\ recipes_by_output' = idx.by_output
        /\ recipes_by_machine' = idx.by_machine
    /\ result' = Returned("_rebuild_indexes", "", PyNone)
    /\ UNCHANGED <<items, machines, recipes, recipeVars, pc, other>>

\* db.get_item(key): one self.items.get
GetItem(key) ==
    /\ result' = Returned("get_item", key, get_item(key))
    /\ items' = dict_after_get(items, key, PyNone)
    /\ UNCHANGED <<machines, recipes, recipes_by_output, recipes_by_machine,
                   recipeVars, pc, other>>

\* db.get_machine(key): one self.machines.get
GetMachine(key) ==
    /\ result' = Returned("get_machine", key, get_machine(key))
    /\ machines' = dict_after_get(machines, key, PyNone)
    /\ UNCHANGED <<items, recipes, recipes_by_output, recipes_by_machine,
                   recipeVars, pc, other>>

\* db.get_recipes_for_item(key): self.items.get, then self._recipes_by_output.get
\* with the item's name or with the key
GetRecipesForItem(key) ==
    /\ result' = Returned("get_recipes_for_item", key, get_recipes_for_item(key))
    /\ items' = dict_after_get(items, key, PyNone)
    /\ LET item_obj == dict_get(items, key, PyNone) IN
        recipes_by_output' =
            dict_after_get(recipes_by_output,
                           IF Truthy(item_obj) THEN item_obj.name ELSE key, <<>>)
    /\ UNCHANGED <<machines, recipes, recipes_by_machine, recipeVars, pc, other>>

\* db.get_recipes_for_machine(key): self.machines.get, then
\* self._recipes_by_machine.get with the machine's name or with the key
GetRecipesForMachine(key) ==
    /\ result' = Returned("get_recipes_for_machine", key, get_recipes_for_machine(key))
    /\ machines' = dict_after_get(machines, key, PyNone)
    /\ LET mach_obj == dict_get(machines, key, PyNone) IN
        recipes_by_machine' =
            dict_after_get(recipes_by_machine,
                           IF Truthy(mach_obj) THEN mach_obj.name ELSE key, <<>>)
    /\ UNCHANGED <<items, recipes, recipes_by_output, recipeVars, pc, other>>

NextDb ==
    \/ \E r \in RecipePool : ListAppend(r)
    \/ \E i \in 1..MaxRecipes : ListRemove(i)
    \/ \E i \in 1..MaxRecipes, r \in RecipePool : ListReplace(i, r)
    \/ Rebuild
    \/ \E key \in LookupKeys : GetItem(key)
    \/ \E key \in LookupKeys : GetMachine(key)
    \/ \E key \in LookupKeys : GetRecipesForItem(key)
    \/ \E key \in LookupKeys : GetRecipesForMachine(key)

SpecDb == InitDb /\ [][NextDb]_vars

(***************************************************************************)
(* Recipe: the arguments tried and the construction of one object          *)
(***************************************************************************)
\* quantities: ints from 0 up, a float (1.0), which is no int, and True
Quantities == {PyInt(n) : n \in 0..MaxQty} \cup {PyFloat(1), PyBool(1)}

\* cycle times, a negative one included
Times == {PyFloat(t) : t \in -1..MaxTime}

\* every insertion-ordered dict of at most n entries over the given entries,
\* no key twice
RECURSIVE Dicts(_, _)
Dicts(entries, n) ==
    IF n = 0 THEN {<<>>}
    ELSE LET shorter == Dicts(entries, n - 1)
             longest == {d \in shorter : Len(d) = n - 1}
             HasKey(d, k) == \E i \in 1..Len(d) : d[i].key = k
         IN shorter \cup
            UNION {{Append(d, e) : e \in {x \in entries : ~HasKey(d, x.key)}} :
                   d \in longest}

\* the machine argument: the Machine object, or a str in its place
MachineArgs == {machine, PyStr("Furnace")}

\* the output argument: dicts keyed by Items or by a str, or a list in its place
OutputArgs ==
    {PyDict(d) : d \in Dicts({Entry(k, q) : k \in {Ingot, Slag, PyStr("Ingot")},
                                            q \in Quantities}, MaxOutputs)}
    \cup {PyList(<<>>)}

\* the ingredients argument: empty, one entry (a good one, a zero quantity, a
\* float quantity, a str key), or a list in its place
IngredientArgs ==
    {PyDict(<<>>), PyList(<<>>)} \cup
    {PyDict(<<e>>) : e \in {Entry(Ore, PyInt(1)), Entry(Ore, PyInt(0)),
                            Entry(Ore, PyFloat(1)), Entry(PyStr("Ore"), PyInt(1))}}

TimeArgs == Times \cup {PyNone}

InitRecipe ==
    /\ LET db == Database(PyNone, PyNone, PyNone) IN
        /\ items = db.items
        /\ machines = db.machines
        /\ recipes = db.recipes
        /\ recipes_by_output = db.recipes_by_output
        /\ recipes_by_machine = db.recipes_by_machine
    /\ result = Returned("__init__", "", PyNone)
    /\ machine = Furnace
    /\ call = PyNone
    /\ recipe = PyNone
    /\ error = NoError
    /\ pc = Idle
    /\ other = PyNone

\* r = Recipe(machine, output, ingredients, time_seconds): r is bound only
\* when the construction raises nothing
Construct(machine_arg, output, ingredients, time_seconds) ==
    /\ call = PyNone
    /\ call' = [machine |-> machine_arg, output |-> output,
                ingredients |-> ingredients, time_seconds |-> time_seconds]
    /\ LET made == NewRecipe(machine_arg, output, ingredients, time_seconds) IN
        /\ error' = made.error
        /\ recipe' = IF made.error = NoError THEN made.obj ELSE PyNone
    /\ UNCHANGED <<machine, dbVars, pc, other>>

\* the caller drops the object, or has handled the exception
Release ==
    /\ call # PyNone
    /\ call' = PyNone
    /\ recipe' = PyNone
    /\ error' = NoError
    /\ UNCHANGED <<machine, dbVars, pc, other>>

\* machine.time_seconds = t, between two constructions: Machine is a dataclass
\* that is not frozen, and __post_init__ does not run again
SetMachineTime(t) ==
    /\ call = PyNone
    /\ machine.time_seconds # t
    /\ machine' = [machine EXCEPT !.time_seconds = t]
    /\ UNCHANGED <<call, recipe, error, dbVars, pc, other>>

\* one construction, with any of the arguments
ConstructAny ==
    /\ call = PyNone
    /\ \E machine_arg \in MachineArgs, output \in OutputArgs,
          ingredients \in IngredientArgs, time_seconds \in TimeArgs :
            Construct(machine_arg, output, ingredients, time_seconds)

NextRecipe ==
    \/ ConstructAny
    \/ Release
    \/ \E t \in TimeArgs : SetMachineTime(t)

SpecRecipe == InitRecipe /\ [][NextRecipe]_vars

(***************************************************************************)
(* Building and Machine: the arguments tried and one construction          *)
(***************************************************************************)
\* widths and heights, zero and a negative one included
Sizes == {<<w, h>> : w \in -1..MaxSize, h \in -1..MaxSize}

\* slot counts, a negative one included
SlotCounts == -1..MaxSlots

InitMachine ==
    /\ LET db == Database(PyNone, PyNone, PyNone) IN
        /\ items = db.items
        /\ machines = db.machines
        /\ recipes = db.recipes
        /\ recipes_by_output = db.recipes_by_output
        /\ recipes_by_machine = db.recipes_by_machine
    /\ result = Returned("__init__", "", PyNone)
    /\ machine = PyNone
    /\ call = PyNone
    /\ recipe = PyNone
    /\ error = NoError
    /\ pc = Idle
    /\ other = PyNone

\* machine = Building(name, size, description): bound only when nothing is raised
ConstructBuilding(size) ==
    /\ call = PyNone
    /\ call' = [class |-> "Building", size |-> size]
    /\ LET made == NewBuilding("Depot", size) IN
        /\ error' = made.error
        /\ machine' = IF made.error = NoError THEN made.obj ELSE PyNone
    /\ UNCHANGED <<recipe, dbVars, pc, other>>

\* machine = Machine(name, size, description, time_seconds=..., ..._slots=...)
ConstructMachine(size, time_seconds, pis, pos, lis, los) ==
    /\ call = PyNone
    /\ call' = [class |-> "Machine", size |-> size, time_seconds |-> time_seconds,
                physical_input_slots |-> pis, physical_output_slots |-> pos,
                liquid_input_slots |-> lis, liquid_output_slots |-> los]
    /\ LET made == NewMachine("Furnace", size, time_seconds, pis, pos, lis, los) IN
        /\ error' = made.error
        /\ machine' = IF made.error = NoError THEN made.obj ELSE PyNone
    /\ UNCHANGED <<recipe, dbVars, pc, other>>

\* one Building, of any size
ConstructBuildingAny ==
    /\ call = PyNone
    /\ \E size \in Sizes : ConstructBuilding(size)

\* one Machine, with any of the arguments
ConstructMachineAny ==
    /\ call = PyNone
    /\ \E size \in Sizes, time_seconds \in Times,
          pis \in SlotCounts, pos \in SlotCounts, lis \in SlotCounts, los \in SlotCounts :
            ConstructMachine(size, time_seconds, pis, pos, lis, los)

\* the caller drops the object, or has handled the exception
Discard ==
    /\ call # PyNone
    /\ call' = PyNone
    /\ machine' = PyNone
    /\ error' = NoError
    /\ UNCHANGED <<recipe, dbVars, pc, other>>

NextMachine ==
    \/ ConstructBuildingAny
    \/ ConstructMachineAny
    \/ Discard

SpecMachine == InitMachine /\ [][NextMachine]_vars

(***************************************************************************)
(* Item: two items compared and hashed                                     *)
(***************************************************************************)
\* the Item(...) objects tried: two names, two icons, solid or fluid, and the
\* stock-bill quantities
ItemPool ==
    {Item(name, icon_path, is_fluid, valley, wuling) :
        name \in {"Ore", "Ingot"}, icon_path \in {"Ore.png", "Ingot.png"},
        is_fluid \in BOOLEAN, valley \in 0..MaxStock, wuling \in 0..MaxStock}

InitItem ==
    /\ LET db == Database(PyNone, PyNone, PyNone) IN
        /\ items = db.items
        /\ machines = db.machines
        /\ recipes = db.recipes
        /\ recipes_by_output = db.recipes_by_output
        /\ recipes_by_machine = db.recipes_by_machine
    /\ result = Returned("__init__", "", PyNone)
    /\ machine = PyNone
    /\ call = PyNone
    /\ recipe = PyNone
    /\ error = NoError
    /\ pc = Idle
    /\ other = PyNone

\* a == b
ItemEq(a, b) ==
    /\ call = PyNone
    /\ call' = [class |-> "Item", left |-> a, right |-> b]
    /\ result' = Returned("__eq__", "", Item_eq(a, b))
    /\ UNCHANGED <<items, machines, recipes, recipes_by_output, recipes_by_machine,
                   machine, recipe, error, pc, other>>

\* hash(a) == hash(b)
ItemHash(a, b) ==
    /\ call = PyNone
    /\ call' = [class |-> "Item", left |-> a, right |-> b]
    /\ result' = Returned("__hash__", "", Item_hash(a) = Item_hash(b))
    /\ UNCHANGED <<items, machines, recipes, recipes_by_output, recipes_by_machine,
                   machine, recipe, error, pc, other>>

\* a.stock_bill_per_item
ItemStockBill(a) ==
    /\ call = PyNone
    /\ call' = [class |-> "Item", self |-> a]
    /\ result' = Returned("stock_bill_per_item", "", stock_bill_per_item(a))
    /\ UNCHANGED <<items, machines, recipes, recipes_by_output, recipes_by_machine,
                   machine, recipe, error, pc, other>>

ItemStockBillAny ==
    /\ call = PyNone
    /\ \E a \in ItemPool : ItemStockBill(a)

ItemEqAny ==
    /\ call = PyNone
    /\ \E a \in ItemPool, b \in ItemPool : ItemEq(a, b)

ItemHashAny ==
    /\ call = PyNone
    /\ \E a \in ItemPool, b \in ItemPool : ItemHash(a, b)

\* the two items go out of use
ItemDone ==
    /\ call # PyNone
    /\ call' = PyNone
    /\ result' = Returned("__init__", "", PyNone)
    /\ UNCHANGED <<items, machines, recipes, recipes_by_output, recipes_by_machine,
                   machine, recipe, error, pc, other>>

NextItem ==
    \/ ItemEqAny
    \/ ItemHashAny
    \/ ItemStockBillAny
    \/ ItemDone

SpecItem == InitItem /\ [][NextItem]_vars

(***************************************************************************)
(* Database: _rebuild_indexes line by line, with a reader beside it        *)
(***************************************************************************)
InitConcurrent == InitDb

\* line 17, run by the writer: self._recipes_by_output.clear()
RebuildClearOutput ==
    /\ pc = Idle
    /\ recipes_by_output' = clear(recipes_by_output)
    /\ pc' = At(18, 0)
    /\ UNCHANGED <<items, machines, recipes, recipes_by_machine, result, recipeVars, other>>

\* line 18: self._recipes_by_machine.clear()
RebuildClearMachine ==
    /\ pc.line = 18
    /\ recipes_by_machine' = clear(recipes_by_machine)
    /\ pc' = At(20, 1)
    /\ UNCHANGED <<items, machines, recipes, recipes_by_output, result, recipeVars, other>>

\* lines 20-24: the next recipe of the list, if any, and its output buckets;
\* the method returns when the list is exhausted
RebuildIndexOutputs ==
    /\ pc.line = 20
    /\ IF pc.cursor <= Len(recipes)
       THEN /\ recipes_by_output' =
                 IndexOutputs(recipes_by_output, recipes[pc.cursor],
                              recipes[pc.cursor].output.entries)
            /\ pc' = At(26, pc.cursor)
       ELSE /\ pc' = Idle
            /\ UNCHANGED recipes_by_output
    /\ UNCHANGED <<items, machines, recipes, recipes_by_machine, result, recipeVars, other>>

\* lines 26-29: the machine bucket of that recipe, then back to the loop head
RebuildIndexMachine ==
    /\ pc.line = 26
    /\ recipes_by_machine' = IndexMachine(recipes_by_machine, recipes[pc.cursor])
    /\ pc' = At(20, pc.cursor + 1)
    /\ UNCHANGED <<items, machines, recipes, recipes_by_output, result, recipeVars, other>>

\* the writer's steps and the reader's queries, interleaved in any order: the
\* class holds no lock and _rebuild_indexes works on the live dicts
NextConcurrent ==
    \/ RebuildClearOutput
    \/ RebuildClearMachine
    \/ RebuildIndexOutputs
    \/ RebuildIndexMachine
    \/ \E key \in LookupKeys : GetRecipesForItem(key)
    \/ \E key \in LookupKeys : GetRecipesForMachine(key)

SpecConcurrent == InitConcurrent /\ [][NextConcurrent]_vars

(***************************************************************************)
(* Two Databases built without arguments, each changed by its owner        *)
(***************************************************************************)
\* the five collections of a Database
Fields == {"items", "machines", "recipes", "recipes_by_output", "recipes_by_machine"}

\* the objects the n-th Database() call binds if "{}" and "[]" were default
\* values of the parameters: the three defaults are made once and shared
NewRefs_shared_default(n) ==
    [f \in Fields |-> IF f \in {"items", "machines", "recipes"} THEN 0 ELSE n]

\* the identities of the objects the n-th Database() call binds: the "{}" and
\* "[]" of lines 7-12 are evaluated in the call, so each is a new object
NewRefs(n) == [f \in Fields |-> n]

\* the contents of the first Database (a) and of the second (b)
Contents(who) ==
    IF who = "a"
    THEN [items |-> items, machines |-> machines, recipes |-> recipes,
          recipes_by_output |-> recipes_by_output,
          recipes_by_machine |-> recipes_by_machine]
    ELSE other.b

\* a and b = Database(), Database()
InitTwoDb ==
    /\ LET db == Database(PyNone, PyNone, PyNone) IN
        /\ items = db.items
        /\ machines = db.machines
        /\ recipes = db.recipes
        /\ recipes_by_output = db.recipes_by_output
        /\ recipes_by_machine = db.recipes_by_machine
        /\ other = [a_refs |-> NewRefs(1), b_refs |-> NewRefs(2), b |-> db]
    /\ result = Returned("__init__", "", PyNone)
    /\ machine = PyNone
    /\ call = PyNone
    /\ recipe = PyNone
    /\ error = NoError
    /\ pc = Idle

\* what field f of Database seen holds once Database who has given its own
\* collections the contents new: a collection is an object, and whoever holds
\* the same object sees what was stored in it
View(seen, f, who, new) ==
    IF seen = who \/ other.a_refs[f] = other.b_refs[f]
    THEN new[f]
    ELSE Contents(seen)[f]

\* Database who stores new in its collections
Store(op, who, new) ==
    /\ items' = View("a", "items", who, new)
    /\ machines' = View("a", "machines", who, new)
    /\ recipes' = View("a", "recipes", who, new)
    /\ recipes_by_output' = View("a", "recipes_by_output", who, new)
    /\ recipes_by_machine' = View("a", "recipes_by_machine", who, new)
    /\ other' = [other EXCEPT !.b = [f \in Fields |-> View("b", f, who, new)]]
    /\ result' = Returned(op, who, PyNone)
    /\ UNCHANGED <<recipeVars, pc>>

\* db.items[key] = item
SetItem(who, key, item) ==
    /\ Cardinality(DOMAIN Contents(who).items) < MaxEntries
    /\ key \notin DOMAIN Contents(who).items
    /\ Store("items.__setitem__", who,
             [Contents(who) EXCEPT !.items = Put(@, key, item)])

\* db.machines[key] = m
SetMachine(who, key, m) ==
    /\ Cardinality(DOMAIN Contents(who).machines) < MaxEntries
    /\ key \notin DOMAIN Contents(who).machines
    /\ Store("machines.__setitem__", who,
             [Contents(who) EXCEPT !.machines = Put(@, key, m)])

\* db.recipes.append(r)
AppendRecipe(who, r) ==
    /\ Len(Contents(who).recipes) < MaxEntries
    /\ Store("recipes.append", who,
             [Contents(who) EXCEPT !.recipes = Append(@, r)])

\* db._rebuild_indexes()
RebuildOf(who) ==
    /\ pc = Idle
    /\ LET db == Contents(who)
           idx == rebuild_indexes(db.recipes_by_output, db.recipes_by_machine,
                                  db.recipes)
       IN Store("_rebuild_indexes", who,
                [db EXCEPT !.recipes_by_output = idx.by_output,
                           !.recipes_by_machine = idx.by_machine])

NextTwoDb ==
    \/ \E who \in {"a", "b"} : SetItem(who, "ingot_bar", Ingot)
    \/ \E who \in {"a", "b"} : SetMachine(who, "smelter", Furnace)
    \/ \E who \in {"a", "b"}, r \in {ingot_recipe_1, slag_recipe} : AppendRecipe(who, r)
    \/ \E who \in {"a", "b"} : RebuildOf(who)

SpecTwoDb == InitTwoDb /\ [][NextTwoDb]_vars

(***************************************************************************)
(* Properties of the Database (checked under SpecDb)                       *)
(***************************************************************************)
\* the indexes have just been built: by the constructor or by _rebuild_indexes
Built == result.op \in {"__init__", "_rebuild_indexes"}

\* x in l
InList(x, l) == \E i \in 1..Len(l) : l[i] = x

\* the names of the items a recipe produces
OutputNames(r) == {r.output.entries[i].key.name : i \in 1..Len(r.output.entries)}

\* the bucket a name has in an index, empty when it has none
Bucket(index, name) == IF name \in DOMAIN index THEN index[name] ELSE <<>>

\* every bucket of both indexes
Buckets ==
    {recipes_by_output[k] : k \in DOMAIN recipes_by_output} \cup
    {recipes_by_machine[k] : k \in DOMAIN recipes_by_machine}

\* b can be had from l by leaving elements out
RECURSIVE IsSubseq(_, _)
IsSubseq(b, l) ==
    IF b = <<>> THEN TRUE
    ELSE IF l = <<>> THEN FALSE
    ELSE IF Head(b) = Head(l) THEN IsSubseq(Tail(b), Tail(l))
    ELSE IsSubseq(b, Tail(l))

NoDuplicates(l) == \A i, j \in 1..Len(l) : l[i] = l[j] => i = j

\* C1: once the Database is built, every recipe of the list is a member of
\* get_recipes_for_item(o.name) for every item o of its output, also when
\* several recipes produce the same item.
C1_OutputIndexComplete ==
    Built =>
        \A i \in 1..Len(recipes) : \A n \in OutputNames(recipes[i]) :
            InList(recipes[i], get_recipes_for_item(n).elems)

\* C2: once the Database is built, every recipe of the list is a member of
\* get_recipes_for_machine(R.machine.name), also when several recipes run on
\* the same machine.
C2_MachineIndexComplete ==
    Built =>
        \A i \in 1..Len(recipes) :
            InList(recipes[i], get_recipes_for_machine(recipes[i].machine.name).elems)

\* two different recipes on one machine, both in its bucket
C2_Witness ==
    /\ Built
    /\ Len(recipes) = 2
    /\ recipes[1] # recipes[2]
    /\ recipes[1].machine.name = recipes[2].machine.name
    /\ get_recipes_for_machine(recipes[1].machine.name).elems = recipes

\* C3: in every state reached by building a Database and changing its recipe
\* list, both indexes are what a full rebuild over the current list gives.
C3_IndexesFollowList ==
    rebuild_indexes(recipes_by_output, recipes_by_machine, recipes)
        = [by_output |-> recipes_by_output, by_machine |-> recipes_by_machine]

\* C4: after _rebuild_indexes a second run changes nothing, no bucket holds a
\* recipe that is not in the current list, and with an empty list every key
\* yields an empty result.
C4_RebuildIdempotentTotal ==
    result.op = "_rebuild_indexes" =>
        /\ rebuild_indexes(recipes_by_output, recipes_by_machine, recipes)
             = [by_output |-> recipes_by_output, by_machine |-> recipes_by_machine]
        /\ \A b \in Buckets : \A i \in 1..Len(b) : InList(b[i], recipes)
        /\ recipes = <<>> =>
             \A key \in LookupKeys :
                /\ get_recipes_for_item(key) = PyList(<<>>)
                /\ get_recipes_for_machine(key) = PyList(<<>>)

\* _rebuild_indexes has run over an empty list on a Database with registries:
\* both indexes are empty
C4_Witness ==
    /\ result.op = "_rebuild_indexes"
    /\ recipes = <<>>
    /\ DOMAIN items # {}
    /\ recipes_by_output = <<>>
    /\ recipes_by_machine = <<>>

\* C5 as stated: once built, every bucket keeps the order of the recipe list
\* and holds no recipe twice.
C5_BucketsOrderedNoRepeat ==
    Built => \A b \in Buckets : IsSubseq(b, recipes) /\ NoDuplicates(b)

\* C5 amended: once built, every bucket keeps the order of the recipe list (it
\* is the list with elements left out), so a bucket holds a recipe twice only
\* if the list does.
C5_BucketsOrdered ==
    Built => \A b \in Buckets :
        /\ IsSubseq(b, recipes)
        /\ NoDuplicates(recipes) => NoDuplicates(b)

\* a list holding one recipe twice, and the bucket of its machine holding it twice
C5_Witness ==
    /\ Built
    /\ Len(recipes) = 2
    /\ recipes[1] = recipes[2]
    /\ \E k \in DOMAIN recipes_by_machine : recipes_by_machine[k] = recipes

\* C6: a query for a key that is neither registered nor indexed returns the
\* empty list (get_recipes_for_item, get_recipes_for_machine) or None
\* (get_item, get_machine).
C6_MissIsEmpty ==
    /\ (result.op = "get_item" /\ result.key \notin DOMAIN items)
          => result.value = PyNone
    /\ (result.op = "get_machine" /\ result.key \notin DOMAIN machines)
          => result.value = PyNone
    /\ (/\ result.op = "get_recipes_for_item"
        /\ result.key \notin DOMAIN items
        /\ result.key \notin DOMAIN recipes_by_output)
          => result.value = PyList(<<>>)
    /\ (/\ result.op = "get_recipes_for_machine"
        /\ result.key \notin DOMAIN machines
        /\ result.key \notin DOMAIN recipes_by_machine)
          => result.value = PyList(<<>>)

\* a miss of get_recipes_for_item on a Database that has registries and indexes
C6_Witness ==
    /\ result = Returned("get_recipes_for_item", "nonexistent", PyList(<<>>))
    /\ DOMAIN items # {}
    /\ DOMAIN recipes_by_output # {}
    /\ recipes # <<>>

\* C7: get_recipes_for_item(lookup) returns the output bucket of
\* items[lookup].name when lookup is a key of items and of lookup otherwise;
\* get_recipes_for_machine likewise with machines and the machine index.
C7_LookupResolution ==
    /\ result.op = "get_recipes_for_item" =>
          result.value =
              PyList(Bucket(recipes_by_output,
                            IF result.key \in DOMAIN items
                            THEN items[result.key].name ELSE result.key))
    /\ result.op = "get_recipes_for_machine" =>
          result.value =
              PyList(Bucket(recipes_by_machine,
                            IF result.key \in DOMAIN machines
                            THEN machines[result.key].name ELSE result.key))

\* a machine registered under a key that is not its name: the query for the
\* key returns the bucket of the name
C7_Witness ==
    /\ result.op = "get_recipes_for_machine"
    /\ result.key = "smelter"
    /\ "smelter" \in DOMAIN machines
    /\ machines["smelter"].name = "Furnace"
    /\ "smelter" \notin DOMAIN recipes_by_machine
    /\ result.value.elems # <<>>
    /\ result.value.elems = Bucket(recipes_by_machine, "Furnace")

\* C23: once the indexes are built, every recipe in the output bucket of a
\* name is in the recipe list and produces an item of that name, every recipe
\* in the machine bucket of a name is in the list and runs on a machine of
\* that name, and no key of either index has an empty bucket.
C23_IndexSound ==
    Built =>
        /\ \A n \in DOMAIN recipes_by_output :
              /\ recipes_by_output[n] # <<>>
              /\ \A i \in 1..Len(recipes_by_output[n]) :
                    /\ InList(recipes_by_output[n][i], recipes)
                    /\ n \in OutputNames(recipes_by_output[n][i])
        /\ \A m \in DOMAIN recipes_by_machine :
              /\ recipes_by_machine[m] # <<>>
              /\ \A i \in 1..Len(recipes_by_machine[m]) :
                    /\ InList(recipes_by_machine[m][i], recipes)
                    /\ recipes_by_machine[m][i].machine.name = m

\* a rebuild over two recipes on two machines, after the list was changed:
\* two keys in each index
C23_Witness ==
    /\ result.op = "_rebuild_indexes"
    /\ Len(recipes) = 2
    /\ Cardinality(DOMAIN recipes_by_output) = 2
    /\ Cardinality(DOMAIN recipes_by_machine) = 2

\* a step that is one of the four queries
QueryStep ==
    \E key \in LookupKeys :
        \/ GetItem(key)
        \/ GetMachine(key)
        \/ GetRecipesForItem(key)
        \/ GetRecipesForMachine(key)

\* what the query that result records returns in the present state
Requery ==
    CASE result.op = "get_item" -> get_item(result.key)
      [] result.op = "get_machine" -> get_machine(result.key)
      [] result.op = "get_recipes_for_item" -> get_recipes_for_item(result.key)
      [] result.op = "get_recipes_for_machine" -> get_recipes_for_machine(result.key)
      [] OTHER -> result.value

\* C24: a query, hit or miss, leaves items, machines, recipes and both indexes
\* as they were (a miss adds no key), so the same query made again, after any
\* other queries, returns the same result.
C24_QueriesReadOnly ==
    [][QueryStep =>
          /\ UNCHANGED <<items, machines, recipes, recipes_by_output,
                         recipes_by_machine>>
          /\ result'.value = Requery']_vars

\* a miss of get_recipes_for_machine on a Database that has registries and
\* indexes: the key is in no index afterwards
C24_Witness ==
    /\ result = Returned("get_recipes_for_machine", "nonexistent", PyList(<<>>))
    /\ DOMAIN machines # {}
    /\ recipes_by_machine # <<>>
    /\ "nonexistent" \notin DOMAIN recipes_by_machine
    /\ "nonexistent" \notin DOMAIN machines

(***************************************************************************)
(* Properties of Recipe construction (checked under SpecRecipe)            *)
(***************************************************************************)
\* the last call returned a Recipe
Constructed == call # PyNone /\ error = NoError

\* C8: no Recipe with time_seconds < 0 exists.
C8_NoNegativeTime == Constructed => recipe.time_seconds.val >= 0

\* C9: a Recipe built without time_seconds has its machine's time_seconds (a
\* machine time of 2.0 gives 30.0 cycles per minute); a Recipe built with a
\* time_seconds keeps it; with neither, the construction fails.
C9_TimingResolution ==
    /\ (Constructed /\ call.time_seconds = PyNone) =>
          /\ recipe.time_seconds = call.machine.time_seconds
          /\ call.machine.time_seconds = PyFloat(2) =>
                cycles_per_minute(recipe) = [inf |-> FALSE, num |-> 30, den |-> 1]
    /\ (Constructed /\ call.time_seconds # PyNone) =>
          recipe.time_seconds = call.time_seconds
    /\ (/\ call # PyNone
        /\ call.time_seconds = PyNone
        /\ call.machine.type = "Machine"
        /\ call.machine.time_seconds = PyNone)
          => (error.class # "None" /\ recipe = PyNone)

\* a recipe that inherited 2.0 s from its machine: 30 cycles per minute
C9_Witness ==
    /\ Constructed
    /\ call.time_seconds = PyNone
    /\ recipe.time_seconds = PyFloat(2)
    /\ cycles_per_minute(recipe) = [inf |-> FALSE, num |-> 30, den |-> 1]

\* C10 as stated: every construction with an empty output mapping raises a
\* ValueError, whatever the other arguments.
C10_EmptyOutputValueError ==
    (call # PyNone /\ call.output = PyDict(<<>>)) => error.class = "ValueError"

\* C10 amended: every construction with an empty output mapping fails: with a
\* ValueError when machine is a Machine and ingredients is a mapping, whatever
\* they hold and whatever time_seconds is, and with a TypeError otherwise.
C10_EmptyOutputFails ==
    (call # PyNone /\ call.output = PyDict(<<>>)) =>
        /\ recipe = PyNone
        /\ error.class = IF call.machine.type = "Machine" /\ call.ingredients.type = "dict"
                         THEN "ValueError" ELSE "TypeError"

\* an empty output with a str-keyed ingredient and a negative time: ValueError
C10_Witness ==
    /\ call # PyNone
    /\ call.output = PyDict(<<>>)
    /\ call.ingredients = PyDict(<<Entry(PyStr("Ore"), PyInt(1))>>)
    /\ call.time_seconds = PyFloat(-1)
    /\ error.class = "ValueError"

\* the entries of both mappings of a call, outputs first, when both are dicts
AllEntries(c) ==
    IF c.output.type = "dict" /\ c.ingredients.type = "dict"
    THEN c.output.entries \o c.ingredients.entries
    ELSE <<>>

\* a quantity that is <= 0 or no int
BadQuantity(v) == ~(v.type \in {"int", "bool"}) \/ v.val <= 0

\* the arguments pass the type / shape step and the non-empty step, and every
\* key of both mappings is an Item
WellShaped(c) ==
    /\ c.machine.type = "Machine"
    /\ c.output.type = "dict"
    /\ c.ingredients.type = "dict"
    /\ c.output.entries # <<>>
    /\ \A i \in 1..Len(AllEntries(c)) : AllEntries(c)[i].key.type = "Item"

HasTypeFault(c) ==
    \/ c.machine.type # "Machine"
    \/ c.output.type # "dict"
    \/ c.ingredients.type # "dict"
    \/ \E i \in 1..Len(AllEntries(c)) : AllEntries(c)[i].key.type # "Item"

\* C22: the checks run in the order type / shape, non-empty output, quantity,
\* timing and the first failing step decides the error: a call with a type /
\* shape fault raises a TypeError whatever else is wrong with it, one without
\* it and with an empty output a ValueError about the output, one that passes
\* both and has a quantity that is no positive int a ValueError.
C22_ChecksInOrder ==
    call # PyNone =>
        /\ HasTypeFault(call) => error.class = "TypeError"
        /\ (~HasTypeFault(call) /\ call.output.entries = <<>>)
              => error = Raise("ValueError", "output")
        /\ (/\ ~HasTypeFault(call)
            /\ call.output.entries # <<>>
            /\ \E i \in 1..Len(AllEntries(call)) : BadQuantity(AllEntries(call)[i].val))
              => error.class = "ValueError"

\* the sum of the quantities of the first n entries
RECURSIVE QuantitySum(_, _)
QuantitySum(entries, n) ==
    IF n = 0 THEN 0 ELSE QuantitySum(entries, n - 1) + entries[n].val.val

\* C12: for a Recipe with time_seconds > 0, cycles_per_minute is
\* 60 / time_seconds and items_per_minute is cycles_per_minute times
\* total_output_count, the sum of the output quantities.
C12_RateLaw ==
    (Constructed /\ recipe.time_seconds.val > 0) =>
        LET c == cycles_per_minute(recipe)
            i == items_per_minute(recipe)
            total == QuantitySum(recipe.output.entries, Len(recipe.output.entries))
        IN /\ ~c.inf
           /\ c.num * recipe.time_seconds.val = 60 * c.den
           /\ total_output_count(recipe) = total
           /\ ~i.inf
           /\ i.num * c.den = c.num * total * i.den

\* two outputs, 2 + 1 items per cycle of 2 s: 30 cycles and 90 items per minute
C12_Witness ==
    /\ Constructed
    /\ recipe.time_seconds = PyFloat(2)
    /\ recipe.output = PyDict(<<Entry(Ingot, PyInt(2)), Entry(Slag, PyInt(1))>>)
    /\ cycles_per_minute(recipe) = [inf |-> FALSE, num |-> 30, den |-> 1]
    /\ items_per_minute(recipe) = [inf |-> FALSE, num |-> 90, den |-> 1]

\* the time a call resolves to: its own, or else its machine's
ResolvedTime(c) ==
    IF c.time_seconds # PyNone THEN c.time_seconds ELSE c.machine.time_seconds

\* C13: a call whose time resolves to 0, given or inherited, is accepted, and
\* the Recipe's cycles_per_minute is +infinity; items_per_minute is not 0.
C13_ZeroTimeUnbounded ==
    /\ (/\ call # PyNone
        /\ WellShaped(call)
        /\ \A i \in 1..Len(AllEntries(call)) : ~BadQuantity(AllEntries(call)[i].val)
        /\ ResolvedTime(call) = PyFloat(0))
          => (Constructed /\ recipe.time_seconds = PyFloat(0))
    /\ (Constructed /\ recipe.time_seconds.val = 0) =>
          /\ cycles_per_minute(recipe) = [inf |-> TRUE, num |-> 0, den |-> 1]
          /\ items_per_minute(recipe).inf

\* a recipe that inherited 0 s from its machine
C13_Witness ==
    /\ Constructed
    /\ call.time_seconds = PyNone
    /\ call.machine.time_seconds = PyFloat(0)
    /\ recipe.time_seconds = PyFloat(0)
    /\ cycles_per_minute(recipe).inf
    /\ items_per_minute(recipe).inf

\* C20: a Recipe's name and icon are the name and icon_path of the first item
\* of the output mapping it was given, in insertion order.
C20_NameIconFirstOutput ==
    Constructed =>
        /\ Recipe_name(recipe) = call.output.entries[1].key.name
        /\ Recipe_icon(recipe) = call.output.entries[1].key.icon_path

\* the entries Ingot and Slag given Slag first: the recipe is named Slag
C20_Witness ==
    /\ Constructed
    /\ call.output = PyDict(<<Entry(Slag, PyInt(1)), Entry(Ingot, PyInt(1))>>)
    /\ Recipe_name(recipe) = "Slag"
    /\ Recipe_icon(recipe) = "Slag.png"

(***************************************************************************)
(* Properties of Building and Machine construction (under SpecMachine)     *)
(***************************************************************************)
\* the last call was Machine(...)
MachineCall == call # PyNone /\ call.class = "Machine"

\* some slot count of the call is negative
NegativeSlot(c) ==
    \/ c.physical_input_slots < 0
    \/ c.physical_output_slots < 0
    \/ c.liquid_input_slots < 0
    \/ c.liquid_output_slots < 0

\* the slot attributes of the call that are negative
NegativeSlots(c) ==
    {a \in {"physical_input_slots", "physical_output_slots",
            "liquid_input_slots", "liquid_output_slots"} : c[a] < 0}

\* C14: a Machine with width > 0, height > 0, time_seconds >= 0 and all four
\* slot counts >= 0 is constructed, and its footprint is width * height.
C14_ValidMachineConstructed ==
    (/\ MachineCall
     /\ call.size[1] > 0
     /\ call.size[2] > 0
     /\ call.time_seconds.val >= 0
     /\ ~NegativeSlot(call))
    => /\ error = NoError
       /\ machine # PyNone
       /\ machine.size = call.size
       /\ footprint(machine) = call.size[1] * call.size[2]

\* a machine 2 wide and 1 high with a zero cycle time: footprint 2
C14_Witness ==
    /\ MachineCall
    /\ call.size = <<2, 1>>
    /\ call.time_seconds = PyFloat(0)
    /\ error = NoError
    /\ footprint(machine) = 2

C18_ObjectsStayValid ==
    /\ machine.size[1] > 0
    /\ machine.size[2] > 0
    /\ machine.time_seconds # PyNone
    /\ machine.time_seconds.val >= 0
    /\ ~NegativeSlot(machine)
    /\ Constructed =>
          /\ recipe.output.entries # <<>>
          /\ \A i \in 1..Len(recipe.output.entries \o recipe.ingredients.entries) :
                ~BadQuantity((recipe.output.entries \o recipe.ingredients.entries)[i].val)

(***************************************************************************)
(* Properties of Item (checked under SpecItem)                             *)
(***************************************************************************)
\* C17: two Items are equal exactly when their names are equal, and two Items
\* of the same name hash alike, whatever their icon_path, is_fluid and
\* stock-bill quantities are.
C17_EqualityByName ==
    /\ (call # PyNone /\ result.op = "__eq__")
          => (result.value <=> (call.left.name = call.right.name))
    /\ (call # PyNone /\ result.op = "__hash__")
          => (call.left.name = call.right.name => result.value)

\* C21: stock_bill_per_item is stock_bill_valley when that is not 0 and
\* stock_bill_wuling otherwise: Valley wins when both are set, and the result
\* is 0 when neither is.
C21_StockBillPrefersValley ==
    (call # PyNone /\ result.op = "stock_bill_per_item")
    => /\ call.self.stock_bill_valley # 0
             => result.value = call.self.stock_bill_valley
       /\ call.self.stock_bill_valley = 0
             => result.value = call.self.stock_bill_wuling
       /\ (call.self.stock_bill_valley = 0 /\ call.self.stock_bill_wuling = 0)
             => result.value = 0

\* both regions set, to different quantities: the Valley one is returned
C21_Witness ==
    /\ call # PyNone
    /\ result.op = "stock_bill_per_item"
    /\ call.self.stock_bill_valley = 1
    /\ call.self.stock_bill_wuling = 2
    /\ result.value = 1

(***************************************************************************)
(* Properties of a rebuild beside a reader (checked under SpecConcurrent)  *)
(***************************************************************************)
\* the indexes a complete rebuild yields; the list does not change under
\* SpecConcurrent, so they are the indexes before the rebuild and after it
CompleteIndex == rebuild_indexes(<< >>, << >>, recipes)

\* the name a lookup key resolves to in a registry
Resolve(registry, key) == IF key \in DOMAIN registry THEN registry[key].name ELSE key

\* C19: every list a query returns, a rebuild running or not, is the bucket of
\* the complete index before the rebuild or after it.
C19_NoHalfRebuiltIndex ==
    /\ result.op = "get_recipes_for_item"
          => result.value = PyList(Bucket(CompleteIndex.by_output,
                                          Resolve(items, result.key)))
    /\ result.op = "get_recipes_for_machine"
          => result.value = PyList(Bucket(CompleteIndex.by_machine,
                                          Resolve(machines, result.key)))

(***************************************************************************)
(* Properties of two Databases (checked under SpecTwoDb)                   *)
(***************************************************************************)
\* every collection of the Database is empty
AllEmpty(db) == \A f \in Fields : db[f] = << >>

\* C25: two Databases built without arguments hold five different objects
\* each, all empty at first, and a step of one of them (an entry added to one
\* of its collections, its indexes rebuilt) leaves every collection and index
\* of the other as it was.
C25_NoSharedState ==
    /\ [](/\ \A f \in Fields : other.a_refs[f] # other.b_refs[f]
          /\ result.op = "__init__" => AllEmpty(Contents("a")) /\ AllEmpty(Contents("b")))
    /\ [][/\ result'.key = "a" => other'.b = other.b
          /\ result'.key = "b" => UNCHANGED <<items, machines, recipes,
                                              recipes_by_output, recipes_by_machine>>]_vars

\* the first Database has an item, a machine, a recipe and rebuilt indexes,
\* the second is as empty as it was built
C25_Witness ==
    /\ result = Returned("_rebuild_indexes", "a", PyNone)
    /\ DOMAIN items # {}
    /\ DOMAIN machines # {}
    /\ recipes # << >>
    /\ DOMAIN recipes_by_output # {}
    /\ DOMAIN recipes_by_machine # {}
    /\ AllEmpty(Contents("b"))

====
